---- MODULE Spec2Model ----
(***************************************************************************)
(* Request-time recommendation logic of api/services/recommendation.py     *)
(* (RecommendationService) against a vector store (Vespa) and a session    *)
(* cache (Redis).                                                          *)
(*                                                                         *)
(* Floats are fixed-point integers: a vector component c stands for        *)
(* c / VScale, a decay weight w for w / WScale.  The float nan is the      *)
(* value NaN.  Python None is NoVector for a vector, None for a scalar.    *)
(* Strings that the code splits are sequences of one-character strings.    *)
(***************************************************************************)
EXTENDS Integers, Sequences, FiniteSets, TLC

VARIABLES store, cache, settings, req

vars == <<store, cache, settings, req>>

(***************************************************************************)
(* Bounds of the model                                                     *)
(***************************************************************************)
\* fixed-point scale of a vector component
VScale == 1000
\* fixed-point scale of a decay weight; a weight below 1/WScale is 0
WScale == 1024

(***************************************************************************)
(* Program constants                                                       *)
(***************************************************************************)
\* datetime(2025, 11, 15, 14, 0, 0, Asia/Seoul).timestamp()
Now == 1763182800
\* HALF_LIFE = 1 * 60 * 60
HALF_LIFE == 3600
\* lrange(redis_key, 0, 9): at most ten entries
CacheWindow == 10
\* Settings.recommend_hits, Settings.recommend_target_hits
DefaultHits == 5
DefaultTargetHits == 10

\* Python None for a scalar (a string, a missing dict value)
None == "<None>"
\* Python None for a List[float]; a dense tensor always has values, so the
\* empty tuple is free to stand for it (both are falsy in `if not v`)
NoVector == <<>>
\* the float nan, as a vector component
NaN == -1073741824

(***************************************************************************)
(* Sequences and strings                                                   *)
(***************************************************************************)
Range(s) == {s[i] : i \in 1..Len(s)}

RECURSIVE SumSeq(_)
SumSeq(s) == IF Len(s) = 0 THEN 0 ELSE Head(s) + SumSeq(Tail(s))

Min(a, b) == IF a < b THEN a ELSE b

\* dict.get(key) / dict.get(key, default)
Get(d, k, default) == IF k \in DOMAIN d THEN d[k] ELSE default

\* "".join(chars)
RECURSIVE Join(_)
Join(cs) == IF Len(cs) = 0 THEN "" ELSE Head(cs) \o Join(Tail(cs))

DigitChars == <<"0", "1", "2", "3", "4", "5", "6", "7", "8", "9">>

DigitOf(c) == (CHOOSE i \in 1..10 : DigitChars[i] = c) - 1

IsDigit(c) == \E i \in 1..10 : DigitChars[i] = c

\* str(n) of a non-negative integer, as characters (how an entry is written)
RECURSIVE Digits(_)
Digits(n) ==
    IF n < 10 THEN <<DigitChars[n + 1]>>
    ELSE Append(Digits(n \div 10), DigitChars[(n % 10) + 1])

\* item.split(":") : the fields between the separators, left to right
RECURSIVE SplitFrom(_, _, _)
SplitFrom(cs, i, cur) ==
    IF i > Len(cs) THEN <<cur>>
    ELSE IF cs[i] = ":" THEN <<cur>> \o SplitFrom(cs, i + 1, <<>>)
    ELSE SplitFrom(cs, i + 1, Append(cur, cs[i]))

Split(cs) == SplitFrom(cs, 1, <<>>)

\* float(text) on an unsigned decimal integer text: defined iff the text is
\* a non-empty run of digits (anything else raises ValueError)
FloatOk(cs) == Len(cs) > 0 /\ \A i \in 1..Len(cs) : IsDigit(cs[i])

RECURSIVE FloatOf(_)
FloatOf(cs) ==
    IF Len(cs) = 0 THEN 0
    ELSE 10 * FloatOf(SubSeq(cs, 1, Len(cs) - 1)) + DigitOf(cs[Len(cs)])

(***************************************************************************)
(* Float arithmetic on vectors (numpy)                                     *)
(***************************************************************************)
IsNaNVec(v) == \E i \in 1..Len(v) : v[i] = NaN

\* floor of the square root
RECURSIVE SqrtSearch(_, _, _)
SqrtSearch(x, lo, hi) ==
    IF lo >= hi THEN lo
    ELSE LET mid == (lo + hi + 1) \div 2
         IN  IF mid * mid <= x THEN SqrtSearch(x, mid, hi)
             ELSE SqrtSearch(x, lo, mid - 1)

ISqrt(x) == SqrtSearch(x, 0, 46340)

\* division rounding toward zero (the sign is kept, as a float division does)
DivT(a, b) == IF a >= 0 THEN a \div b ELSE -((-a) \div b)

\* np.linalg.norm(vector), in the scale of the components
Norm(v) == IF IsNaNVec(v) THEN NaN ELSE ISqrt(SumSeq([i \in 1..Len(v) |-> v[i] * v[i]]))

\* normalize_vector: vector / norm if norm > 0 else vector  (nan > 0 is False)
normalize_vector(v) ==
    LET norm == Norm(v)
    IN  IF norm # NaN /\ norm > 0
        THEN [i \in 1..Len(v) |-> DivT(v[i] * VScale, norm)]
        ELSE v

(***************************************************************************)
(* The vector store: one set of documents per schema, and how it answers   *)
(* the queries the service sends                                           *)
(***************************************************************************)
\* the query of one _query_vespa call: the YQL text and the body, by parts
Query(kind, schema, id_field, ids, model_version, hits, q, target_hits) ==
    [kind |-> kind, schema |-> schema, id_field |-> id_field, ids |-> ids,
     model_version |-> model_version, hits |-> hits, q |-> q,
     target_hits |-> target_hits]

\* a set of documents as a sequence, in some fixed order
RECURSIVE SeqOfSet(_)
SeqOfSet(S) ==
    IF S = {} THEN <<>>
    ELSE LET d == CHOOSE x \in S : TRUE IN <<d>> \o SeqOfSet(S \ {d})

Take(s, n) == SubSeq(s, 1, Min(n, Len(s)))

\* the hit the store returns for a document under the query's select list
HitOf(d, query) ==
    CASE query.kind = "vector" ->
            [fields |-> [embedding |-> [values |-> d.embedding]]]
      [] query.kind = "batch" ->
            [fields |-> (query.id_field :> d[query.id_field])
                        @@ [embedding |-> [values |-> d.embedding]]]
      [] query.kind = "segment" ->
            [fields |-> [embedding |-> [values |-> d.embedding]]]
      [] OTHER -> [fields |-> d]

\* the documents of the queried schema that satisfy the where clause
Matching(st, query) ==
    CASE query.kind \in {"vector", "batch"} ->
            {d \in st[query.schema] :
                /\ d[query.id_field] \in Range(query.ids)
                /\ d.model_version = query.model_version}
      [] query.kind = "segment" ->
            {d \in st[query.schema] : d.segment_id \in Range(query.ids)}
      [] OTHER ->
            {d \in st[query.schema] : d[query.id_field] \in Range(query.ids)}

\* response.hits of a filter query: at most query.hits of the matches
StoreHits(st, query) ==
    LET docs == SeqOfSet(Matching(st, query))
    IN  Take([i \in 1..Len(docs) |-> HitOf(docs[i], query)], query.hits)

(***************************************************************************)
(* Exceptions and results of a call                                        *)
(***************************************************************************)
NoExc == [kind |-> "none", status |-> 0, detail |-> <<>>]

HTTPException(status_code, detail) ==
    [kind |-> "HTTPException", status |-> status_code, detail |-> detail]

\* an exception the service raises without catching it (float(), parts[1])
Uncaught(name) == [kind |-> name, status |-> 0, detail |-> <<>>]

\* variant of QueryVespa: a failure of the client is taken for no hits
QueryVespa_SwallowsFailure(ok, hits) ==
    [exc |-> NoExc, hits |-> IF ok THEN hits ELSE <<>>]

\* _query_vespa: the hits of the response, or 500 when the client raises
QueryVespa(ok, hits) ==
    IF ok THEN [exc |-> NoExc, hits |-> hits]
    ELSE [exc |-> HTTPException(500, <<"Vespa Query Error: ">>), hits |-> <<>>]

\* `if hits:` / `if not base_vector:` on a list
Truthy(list) == Len(list) > 0

\* `if not segment_id:` on a string or None
TruthyStr(s) == s # None /\ s # ""

IdField(doc_type) == IF doc_type = "user" THEN "uid" ELSE "pid"

(***************************************************************************)
(* _fetch_vector, _fetch_segment_vector, _fetch_metadata                   *)
(***************************************************************************)
FetchVectorQuery(doc_type, id_value, stg) ==
    Query("vector", doc_type \o "_vector", IdField(doc_type), <<id_value>>,
          stg.latest_model_version, 1, NoVector, 0)

\* hits[0]["fields"]["embedding"]["values"] can be read without a KeyError
HasEmbeddingValues(hit) ==
    /\ "fields" \in DOMAIN hit
    /\ "embedding" \in DOMAIN hit.fields
    /\ "values" \in DOMAIN hit.fields.embedding

\* `if hits: return hits[0]["fields"]["embedding"]["values"]` / `return None`,
\* on the result of _query_vespa; the subscripts are outside any try
EmbeddingOfFirstHit(res) ==
    IF res.exc # NoExc THEN [exc |-> res.exc, value |-> NoVector]
    ELSE IF ~Truthy(res.hits) THEN [exc |-> NoExc, value |-> NoVector]
    ELSE IF HasEmbeddingValues(res.hits[1])
    THEN [exc |-> NoExc, value |-> res.hits[1].fields.embedding.values]
    ELSE [exc |-> Uncaught("KeyError"), value |-> NoVector]

\* variant of FetchVectorFrom: after the request's first lookup the vector
\* is taken to be absent without looking at the answer
FetchVectorFrom_Remembers(doc_type, id_value, stg, ok, raw) ==
    LET query == FetchVectorQuery(doc_type, id_value, stg)
        out == EmbeddingOfFirstHit(QueryVespa(ok, raw))
    IN  IF \E r \in DOMAIN req :
              "log" \in DOMAIN req[r] /\ Len(req[r].log) > 0
        THEN [exc |-> NoExc, query |-> query, value |-> NoVector]
        ELSE [exc |-> out.exc, query |-> query, value |-> out.value]

\* _fetch_vector when the store answers the query with the hits `raw`
FetchVectorFrom(doc_type, id_value, stg, ok, raw) ==
    LET query == FetchVectorQuery(doc_type, id_value, stg)
        out == EmbeddingOfFirstHit(QueryVespa(ok, raw))
    IN  [exc |-> out.exc, query |-> query, value |-> out.value]

\* value: the embedding of the first hit, NoVector (None) when there is none
FetchVector(doc_type, id_value, st, stg, ok) ==
    FetchVectorFrom(doc_type, id_value, stg, ok,
                    StoreHits(st, FetchVectorQuery(doc_type, id_value, stg)))

FetchSegmentVectorQuery(doc_type, segment_id) ==
    Query("segment", doc_type \o "_segment", "segment_id", <<segment_id>>,
          None, 1, NoVector, 0)

\* _fetch_segment_vector when the store answers with the hits `raw`
FetchSegmentVectorFrom(doc_type, segment_id, ok, raw) ==
    LET query == FetchSegmentVectorQuery(doc_type, segment_id)
        out == EmbeddingOfFirstHit(QueryVespa(ok, raw))
    IN  [exc |-> out.exc, query |-> query, value |-> out.value]

FetchSegmentVector(doc_type, segment_id, st, ok) ==
    FetchSegmentVectorFrom(doc_type, segment_id, ok,
        StoreHits(st, FetchSegmentVectorQuery(doc_type, segment_id)))

FetchMetadataQuery(doc_type, id_value) ==
    Query("metadata", doc_type, IdField(doc_type), <<id_value>>, None, 1,
          NoVector, 0)

\* variant of FetchMetadata: no hit yields an empty mapping, not 404
FetchMetadata_NoRaise(doc_type, id_value, st, ok) ==
    LET query == FetchMetadataQuery(doc_type, id_value)
        res == QueryVespa(ok, StoreHits(st, query))
    IN  [exc |-> res.exc, query |-> query,
         value |-> IF Truthy(res.hits) THEN res.hits[1].fields ELSE <<>>]

\* _fetch_metadata when the store answers with the hits `raw`:
\* hits[0]["fields"], or 404 naming the id when there is no hit
FetchMetadataFrom(doc_type, id_value, ok, raw) ==
    LET query == FetchMetadataQuery(doc_type, id_value)
        res == QueryVespa(ok, raw)
    IN  IF res.exc # NoExc THEN [exc |-> res.exc, query |-> query, value |-> <<>>]
        ELSE IF ~Truthy(res.hits)
        THEN [exc |-> HTTPException(404,
                        <<"Document '", id_value, "' not found in ",
                          doc_type, " schema">>),
              query |-> query, value |-> <<>>]
        ELSE IF "fields" \in DOMAIN res.hits[1]
        THEN [exc |-> NoExc, query |-> query, value |-> res.hits[1].fields]
        ELSE [exc |-> Uncaught("KeyError"), query |-> query, value |-> <<>>]

\* value: the fields of the first hit; 404 naming the id when there is none
FetchMetadata(doc_type, id_value, st, ok) ==
    FetchMetadataFrom(doc_type, id_value, ok,
                      StoreHits(st, FetchMetadataQuery(doc_type, id_value)))

(***************************************************************************)
(* _get_recent_interactions                                                *)
(***************************************************************************)
RedisKey(doc_type, id_value) ==
    doc_type \o ":session:recent_interactions:" \o id_value

\* redis lrange(key, 0, 9): the first ten entries, [] for a missing key
LRange(c, key) ==
    IF key \in DOMAIN c THEN Take(c[key], CacheWindow) ELSE <<>>

\* variant of GetRecentInteractions: a failing read is taken for no events
GetRecentInteractions_SwallowsFailure(doc_type, id_value, c, ok) ==
    [exc |-> NoExc, key |-> RedisKey(doc_type, id_value),
     value |-> IF ok THEN LRange(c, RedisKey(doc_type, id_value)) ELSE <<>>]

GetRecentInteractions(doc_type, id_value, c, ok) ==
    IF ok
    THEN [exc |-> NoExc, key |-> RedisKey(doc_type, id_value),
          value |-> LRange(c, RedisKey(doc_type, id_value))]
    ELSE [exc |-> HTTPException(500, <<"Redis Error: ">>),
          key |-> RedisKey(doc_type, id_value), value |-> <<>>]

(***************************************************************************)
(* _compute_realtime_vector                                                *)
(***************************************************************************)
\* 1. parsing one cache entry: float(parts[0]) is evaluated before parts[1]
ParseExc(item) ==
    LET parts == Split(item)
    IN  IF ~FloatOk(parts[1]) THEN Uncaught("ValueError")
        ELSE IF Len(parts) < 2 THEN Uncaught("IndexError")
        ELSE NoExc

ParseItem(item) ==
    LET parts == Split(item)
    IN  [event_ts |-> FloatOf(parts[1]), id_value |-> Join(parts[2])]

\* the exception of the first entry that does not parse, NoExc if all do
RECURSIVE FirstParseExc(_)
FirstParseExc(items) ==
    IF Len(items) = 0 THEN NoExc
    ELSE IF ParseExc(Head(items)) # NoExc THEN ParseExc(Head(items))
    ELSE FirstParseExc(Tail(items))

\* 2. the one query for the embeddings of all referenced ids
\* variant of BatchQuery: only the first interaction's id is asked for
BatchQuery_FirstOnly(interaction_type, interactions, stg) ==
    Query("batch", interaction_type \o "_vector", IdField(interaction_type),
          <<interactions[1].id_value>>, stg.latest_model_version, 1,
          NoVector, 0)

BatchQuery(interaction_type, interactions, stg) ==
    Query("batch", interaction_type \o "_vector", IdField(interaction_type),
          [i \in 1..Len(interactions) |-> interactions[i].id_value],
          stg.latest_model_version, Len(interactions), NoVector, 0)

\* {hit id: hit embedding for hit in raw_hits}; a later hit replaces an earlier
VectorMap(raw_hits, id_field) ==
    LET keys == {raw_hits[i].fields[id_field] : i \in 1..Len(raw_hits)}
        last(k) == CHOOSE i \in 1..Len(raw_hits) :
                      /\ raw_hits[i].fields[id_field] = k
                      /\ \A j \in (i + 1)..Len(raw_hits) :
                            raw_hits[j].fields[id_field] # k
    IN  [k \in keys |-> raw_hits[last(k)].fields.embedding.values]

\* np.exp(-decay_lambda * delta_t) = 2 ^ -(delta_t / HALF_LIFE): exact at the
\* whole half-lives, linear between two of them, 0 below the resolution
RECURSIVE Halve(_, _)
Halve(w, k) == IF k = 0 \/ w = 0 THEN w ELSE Halve(w \div 2, k - 1)

DecayWeight(delta_t) ==
    LET whole == Halve(WScale, delta_t \div HALF_LIFE)
        r == delta_t % HALF_LIFE
    IN  whole - ((whole * r) \div (2 * HALF_LIFE))

\* variant of DeltaT: the distance to now, on either side of it
DeltaT_Abs(event_ts) ==
    IF Now - event_ts > 0 THEN Now - event_ts ELSE event_ts - Now

\* delta_t = max(0, now - event_ts)
DeltaT(event_ts) == IF Now - event_ts > 0 THEN Now - event_ts ELSE 0

\* variant of LoopBody: an id the map lacks still adds its weight
LoopBody_CountsMissing(interaction, vector_map) ==
    IF interaction.id_value \notin DOMAIN vector_map
    THEN [weighted_vectors |-> <<>>, weights |-> <<>>,
          total_weight |-> DecayWeight(DeltaT(interaction.event_ts))]
    ELSE LET weight == DecayWeight(DeltaT(interaction.event_ts))
             vec == vector_map[interaction.id_value]
         IN  [weighted_vectors |-> <<[i \in 1..Len(vec) |-> vec[i] * weight]>>,
              weights |-> <<[event_ts |-> interaction.event_ts,
                             weight |-> weight]>>,
              total_weight |-> weight]

\* 3. one pass of the loop body: what the interaction adds to
\* weighted_vectors and to total_weight; an id the map lacks adds nothing
LoopBody(interaction, vector_map) ==
    IF interaction.id_value \notin DOMAIN vector_map
    THEN [weighted_vectors |-> <<>>, weights |-> <<>>, total_weight |-> 0]
    ELSE LET weight == DecayWeight(DeltaT(interaction.event_ts))
             vec == vector_map[interaction.id_value]
         IN  [weighted_vectors |-> <<[i \in 1..Len(vec) |-> vec[i] * weight]>>,
              weights |-> <<[event_ts |-> interaction.event_ts,
                             weight |-> weight]>>,
              total_weight |-> weight]

RECURSIVE WeightedLoop(_, _)
WeightedLoop(interactions, vector_map) ==
    IF Len(interactions) = 0
    THEN [weighted_vectors |-> <<>>, weights |-> <<>>, total_weight |-> 0]
    ELSE LET body == LoopBody(Head(interactions), vector_map)
             rest == WeightedLoop(Tail(interactions), vector_map)
         IN  [weighted_vectors |->
                  body.weighted_vectors \o rest.weighted_vectors,
              weights |-> body.weights \o rest.weights,
              total_weight |-> body.total_weight + rest.total_weight]

\* np.sum(weighted_vectors, axis=0); the sum of no vectors is the scalar 0.0
VecSum(vs) ==
    IF Len(vs) = 0 THEN <<0>>
    ELSE [i \in 1..Len(vs[1]) |-> SumSeq([j \in 1..Len(vs) |-> vs[j][i]])]

\* vector / total_weight: 0 / 0 is nan and raises nothing
VecDiv(v, total_weight) ==
    [i \in 1..Len(v) |-> IF total_weight = 0 THEN NaN
                         ELSE DivT(v[i], total_weight)]

\* variant of Combine: the scaled vectors are joined end to end, not added
Combine_Concatenated(alpha, base_vector, beta, recent_vector) ==
    [i \in 1..Len(base_vector) |-> alpha * base_vector[i]]
        \o [i \in 1..Len(recent_vector) |->
                IF recent_vector[i] = NaN THEN NaN ELSE beta * recent_vector[i]]

\* variant of Combine: the configured weights are not applied
Combine_Unweighted(alpha, base_vector, beta, recent_vector) ==
    [i \in 1..Len(base_vector) |->
        IF IsNaNVec(recent_vector) \/ IsNaNVec(base_vector) THEN NaN
        ELSE base_vector[i] + recent_vector[i]]

\* (alpha * base) + (beta * recent)
Combine(alpha, base_vector, beta, recent_vector) ==
    [i \in 1..Len(base_vector) |->
        IF IsNaNVec(recent_vector) \/ IsNaNVec(base_vector) THEN NaN
        ELSE alpha * base_vector[i] + beta * recent_vector[i]]

\* variant of NoEvents: the early return is never taken
NoEvents_Never(recent_interactions) == FALSE

\* `if not recent_interactions: return base_vector`
NoEvents(recent_interactions) == Len(recent_interactions) = 0

\* variant of ReturnOnNoEvents: the base vector is normalized on the way out
ReturnOnNoEvents_Normalized(base_vector) == normalize_vector(base_vector)

ReturnOnNoEvents(base_vector) == base_vector

\* variant of NoneResolved: the early return is never taken
NoneResolved_Never(vector_map) == FALSE

\* `if not vector_map: return base_vector`
NoneResolved(vector_map) == DOMAIN vector_map = {}

ReturnOnNoneResolved(base_vector) == base_vector

NoBlend ==
    [branch |-> "none", weighted_vectors |-> <<>>, weights |-> <<>>,
     total_weight |-> 0]

\* value: the real-time vector; queries: the store queries issued;
\* steps: the branch taken and the intermediate sums
ComputeRealtimeVector(base_vector, interaction_type, recent_interactions, st, stg, ok) ==
    IF NoEvents(recent_interactions)
    THEN [exc |-> NoExc, value |-> ReturnOnNoEvents(base_vector), queries |-> <<>>,
          steps |-> [NoBlend EXCEPT !.branch = "no_events"]]
    ELSE IF FirstParseExc(recent_interactions) # NoExc
    THEN [exc |-> FirstParseExc(recent_interactions), value |-> NoVector,
          queries |-> <<>>, steps |-> [NoBlend EXCEPT !.branch = "parse"]]
    ELSE
    LET interactions == [i \in 1..Len(recent_interactions) |->
                            ParseItem(recent_interactions[i])]
        query == BatchQuery(interaction_type, interactions, stg)
        res == QueryVespa(ok, StoreHits(st, query))
        vector_map == VectorMap(res.hits, IdField(interaction_type))
        loop == WeightedLoop(interactions, vector_map)
        recent_vector ==
            normalize_vector(VecDiv(VecSum(loop.weighted_vectors),
                                    loop.total_weight))
        combined_vector ==
            normalize_vector(Combine(stg.recommend_alpha, base_vector,
                                     stg.recommend_beta, recent_vector))
    IN  IF res.exc # NoExc
        THEN [exc |-> res.exc, value |-> NoVector, queries |-> <<query>>,
              steps |-> [NoBlend EXCEPT !.branch = "query"]]
        ELSE IF NoneResolved(vector_map)
        THEN [exc |-> NoExc, value |-> ReturnOnNoneResolved(base_vector),
              queries |-> <<query>>,
              steps |-> [NoBlend EXCEPT !.branch = "unresolved"]]
        ELSE [exc |-> NoExc, value |-> combined_vector,
              queries |-> <<query>>,
              steps |-> [branch |-> "blended",
                         weighted_vectors |-> loop.weighted_vectors,
                         weights |-> loop.weights,
                         total_weight |-> loop.total_weight]]

(***************************************************************************)
(* _search_nearest                                                         *)
(***************************************************************************)
\* Optional[int] = None
NoneInt == -1

\* variant of SearchNearestQuery: the defaults are taken with `or`, so that
\* a supplied 0 gives way to the configured value
SearchNearestQuery_FalsyDefaults(target_doc_type, query_vector, hits, target_hits, stg) ==
    Query("nn", target_doc_type \o "_vector", "embedding", <<>>, None,
          IF hits # NoneInt /\ hits # 0 THEN hits ELSE stg.recommend_hits,
          query_vector,
          IF target_hits # NoneInt /\ target_hits # 0 THEN target_hits
          ELSE stg.recommend_target_hits)

SearchNearestQuery(target_doc_type, query_vector, hits, target_hits, stg) ==
    Query("nn", target_doc_type \o "_vector", "embedding", <<>>, None,
          IF hits # NoneInt THEN hits ELSE stg.recommend_hits,
          query_vector,
          IF target_hits # NoneInt THEN target_hits
          ELSE stg.recommend_target_hits)

\* value: [hit.get("fields", {}) for hit in raw_hits]
SearchNearest(target_doc_type, query_vector, hits, target_hits, stg, ok, raw) ==
    LET query == SearchNearestQuery(target_doc_type, query_vector, hits,
                                    target_hits, stg)
        res == QueryVespa(ok, raw)
    IN  [exc |-> res.exc, query |-> query,
         value |-> [i \in 1..Len(res.hits) |->
                       Get(res.hits[i], "fields", <<>>)]]

\* the summary fields of a document of the target vector schema
SummaryFields(target_doc_type) ==
    IF target_doc_type = "product" THEN {"pid", "name", "categories"}
    ELSE {"uid", "country", "state", "zipcode"}

\* the fields mapping of a hit: the summary fields of the document and the
\* schema name the store adds to them
HitFields(d, target_doc_type) ==
    [f \in SummaryFields(target_doc_type) \cup {"sddocname"} |->
        IF f = "sddocname" THEN target_doc_type \o "_vector" ELSE d[f]]

\* a hit may come complete, without one of the summary fields, or without
\* its fields mapping
HitShapes == {"full", "field_missing", "fields_missing"}

DroppedField(target_doc_type) ==
    IF target_doc_type = "product" THEN "name" ELSE "zipcode"

\* the hits the store may answer a nearest-neighbor query with: documents of
\* the target schema, each once, in any order, at most query.hits of them
AnnHit(d, target_doc_type, shape) ==
    LET meta == [id |-> "id:" \o d[IdField(target_doc_type)],
                 relevance |-> "score"]
        fields == HitFields(d, target_doc_type)
    IN  IF shape = "fields_missing" THEN meta
        ELSE IF shape = "field_missing"
        THEN meta @@ [fields |->
                 [f \in DOMAIN fields \ {DroppedField(target_doc_type)} |->
                     fields[f]]]
        ELSE meta @@ [fields |-> fields]

RECURSIVE Arrangements(_, _)
Arrangements(S, n) ==
    IF n = 0 \/ S = {} THEN {<<>>}
    ELSE {<<>>} \cup UNION {{<<d>> \o rest : rest \in Arrangements(S \ {d}, n - 1)}
                            : d \in S}

\* the first hit in any shape, the others complete
AnnResponses(st, query, target_doc_type) ==
    {[i \in 1..Len(a) |->
         AnnHit(a[i], target_doc_type, IF i = 1 THEN shape ELSE "full")] :
        a \in Arrangements(st[query.schema],
                           Min(query.hits, query.target_hits)),
        shape \in HitShapes}

\* variant of Project: the fields mapping is handed on as it came
Project_PassThrough(r, target_doc_type) == r

\* the public shape of one result: r.get(field) is None for a missing field
Project(r, target_doc_type) ==
    [f \in SummaryFields(target_doc_type) |-> Get(r, f, None)]

ProjectAll(results, target_doc_type) ==
    [i \in 1..Len(results) |-> Project(results[i], target_doc_type)]

(***************************************************************************)
(* The two public operations, stage by stage.  A stage is the code up to   *)
(* and including one call of the store or the cache.                       *)
(***************************************************************************)
\* the entity type of the id a public operation is given, and of its results
SourceType(op) == IF op = "get_product_recommendations" THEN "user" ELSE "product"

TargetType(op) == IF op = "get_product_recommendations" THEN "product" ELSE "user"

\* variant of NextStage: a segment vector goes straight to the search
NextStage_SegmentSkipsBlend(op, stage, base_vector, segment_id) ==
    CASE stage = "fetch_vector" ->
            IF op = "get_product_recommendations" THEN "recent" ELSE "search"
      [] stage = "recent" ->
            IF ~Truthy(base_vector) THEN "metadata" ELSE "blend"
      [] stage = "metadata" ->
            IF ~TruthyStr(segment_id) THEN "return_empty" ELSE "segment"
      [] stage = "segment" ->
            IF ~Truthy(base_vector) THEN "raise_not_found" ELSE "search"
      [] stage = "blend" -> "search"
      [] OTHER -> "return"

\* variant of NextStage: a missing segment vector yields the empty list
NextStage_MissingSegmentDegrades(op, stage, base_vector, segment_id) ==
    CASE stage = "fetch_vector" ->
            IF op = "get_product_recommendations" THEN "recent" ELSE "search"
      [] stage = "recent" ->
            IF ~Truthy(base_vector) THEN "metadata" ELSE "blend"
      [] stage = "metadata" ->
            IF ~TruthyStr(segment_id) THEN "return_empty" ELSE "segment"
      [] stage = "segment" ->
            IF ~Truthy(base_vector) THEN "return_empty" ELSE "blend"
      [] stage = "blend" -> "search"
      [] OTHER -> "return"

\* variant of NextStage: get_target_users reads the cache and blends too
NextStage_TargetUsersBlend(op, stage, base_vector, segment_id) ==
    CASE stage = "fetch_vector" ->
            "recent"
      [] stage = "recent" ->
            IF ~Truthy(base_vector) THEN "metadata" ELSE "blend"
      [] stage = "metadata" ->
            IF ~TruthyStr(segment_id) THEN "return_empty" ELSE "segment"
      [] stage = "segment" ->
            IF ~Truthy(base_vector) THEN "raise_not_found" ELSE "blend"
      [] stage = "blend" -> "search"
      [] OTHER -> "return"

\* the statement that follows a stage, from the values the stage left
\* variant of NextStage: once the segment vector is found the pipeline goes
\* back to read the cached interactions again
NextStage_SegmentRereadsCache(op, stage, base_vector, segment_id) ==
    CASE stage = "fetch_vector" ->
            IF op = "get_product_recommendations" THEN "recent" ELSE "search"
      [] stage = "recent" ->
            IF ~Truthy(base_vector) THEN "metadata" ELSE "blend"
      [] stage = "metadata" ->
            IF ~TruthyStr(segment_id) THEN "return_empty" ELSE "segment"
      [] stage = "segment" ->
            IF ~Truthy(base_vector) THEN "raise_not_found" ELSE "recent"
      [] stage = "blend" -> "search"
      [] OTHER -> "return"

NextStage(op, stage, base_vector, segment_id) ==
    CASE stage = "fetch_vector" ->
            IF op = "get_product_recommendations" THEN "recent" ELSE "search"
      [] stage = "recent" ->
            IF ~Truthy(base_vector) THEN "metadata" ELSE "blend"
      [] stage = "metadata" ->
            IF ~TruthyStr(segment_id) THEN "return_empty" ELSE "segment"
      [] stage = "segment" ->
            IF ~Truthy(base_vector) THEN "raise_not_found" ELSE "blend"
      [] stage = "blend" -> "search"
      [] OTHER -> "return"

NoOutcome == [kind |-> "none", exc |-> NoExc, value |-> <<>>]

Raised(exc) == [kind |-> "raise", exc |-> exc, value |-> <<>>]

\* variant of Returned: an empty list is reported as not found
Returned_EmptyIsNotFound(value) ==
    IF value = <<>> THEN Raised(HTTPException(404, <<"No results.">>))
    ELSE [kind |-> "return", exc |-> NoExc, value |-> value]

Returned(value) == [kind |-> "return", exc |-> NoExc, value |-> value]

\* one external call as the request's history keeps it
VespaCall(query, ok) == [svc |-> "vespa", query |-> query, ok |-> ok]

RedisCall(key, ok) ==
    [svc |-> "redis",
     query |-> Query("lrange", key, "", <<>>, None, CacheWindow, NoVector, 0),
     ok |-> ok]

IdleRequest ==
    [pc |-> "idle", op |-> "none", id |-> "", base_vector |-> NoVector,
     recent_interactions |-> <<>>, segment_id |-> None,
     query_vector |-> NoVector, steps |-> NoBlend, calls |-> <<>>,
     raw_hits |-> <<>>,
     outcome |-> NoOutcome, response |-> <<>>]

\* the stage raised `exc`, or else the request goes on as `next` says
Proceed(r, exc, next, updated) ==
    IF exc # NoExc
    THEN req' = [req EXCEPT ![r] = [updated EXCEPT !.pc = "finished",
                                                   !.outcome = Raised(exc)]]
    ELSE IF next = "return_empty"
    THEN req' = [req EXCEPT ![r] = [updated EXCEPT !.pc = "finished",
                                                   !.outcome = Returned(<<>>)]]
    ELSE IF next = "raise_not_found"
    THEN req' = [req EXCEPT ![r] =
                    [updated EXCEPT
                        !.pc = "finished",
                        !.outcome = Raised(HTTPException(404,
                            <<"Segment Document '", updated.segment_id,
                              "' not found in user_segment schema.">>))]]
    ELSE req' = [req EXCEPT ![r] = [updated EXCEPT !.pc = next]]

\* variant of Request: the service keeps one request at a time, so an
\* arriving request discards the state of the others
Request_ClearsOthers(r, op, id) ==
    /\ req[r].pc = "idle"
    /\ req' = [q \in DOMAIN req |->
                  IF q = r THEN [IdleRequest EXCEPT !.pc = "fetch_vector",
                                                    !.op = op, !.id = id]
                  ELSE IdleRequest]
    /\ UNCHANGED <<store, cache, settings>>

\* a request arrives at one of the two routes
Request(r, op, id) ==
    /\ req[r].pc = "idle"
    /\ req' = [req EXCEPT ![r] = [IdleRequest EXCEPT !.pc = "fetch_vector",
                                                     !.op = op, !.id = id]]
    /\ UNCHANGED <<store, cache, settings>>

\* base_vector = self._fetch_vector(...) / product_vector = ...
FetchVectorStage(r) ==
    /\ req[r].pc = "fetch_vector"
    /\ \E ok \in BOOLEAN :
        LET rq == req[r]
            res == FetchVector(SourceType(rq.op), rq.id, store, settings, ok)
            updated == [rq EXCEPT
                !.base_vector = res.value,
                !.query_vector = IF rq.op = "get_target_users" THEN res.value
                                 ELSE NoVector,
                !.calls = Append(rq.calls, VespaCall(res.query, ok))]
        IN  Proceed(r, res.exc,
                    NextStage(rq.op, "fetch_vector", res.value, None), updated)
    /\ UNCHANGED <<store, cache, settings>>

\* variant of RecentStage: the entries read are taken off the list
RecentStage_Consumes(r) ==
    /\ req[r].pc = "recent"
    /\ \E ok \in BOOLEAN :
        LET rq == req[r]
            res == GetRecentInteractions(SourceType(rq.op), rq.id, cache, ok)
            updated == [rq EXCEPT
                !.recent_interactions = res.value,
                !.calls = Append(rq.calls, RedisCall(res.key, ok))]
        IN  /\ Proceed(r, res.exc,
                       NextStage(rq.op, "recent", rq.base_vector, None),
                       updated)
            /\ cache' = [k \in DOMAIN cache |->
                            IF ok /\ k = res.key THEN <<>> ELSE cache[k]]
    /\ UNCHANGED <<store, settings>>

\* recent_interactions = self._get_recent_interactions(...)
RecentStage(r) ==
    /\ req[r].pc = "recent"
    /\ \E ok \in BOOLEAN :
        LET rq == req[r]
            res == GetRecentInteractions(SourceType(rq.op), rq.id, cache, ok)
            updated == [rq EXCEPT
                !.recent_interactions = res.value,
                !.calls = Append(rq.calls, RedisCall(res.key, ok))]
        IN  Proceed(r, res.exc,
                    NextStage(rq.op, "recent", rq.base_vector, None), updated)
    /\ UNCHANGED <<store, cache, settings>>

\* user_metadata = self._fetch_metadata(...); segment_id = ....get("segment_id")
MetadataStage(r) ==
    /\ req[r].pc = "metadata"
    /\ \E ok \in BOOLEAN :
        LET rq == req[r]
            res == FetchMetadata(SourceType(rq.op), rq.id, store, ok)
            segment_id == Get(res.value, "segment_id", None)
            updated == [rq EXCEPT
                !.segment_id = segment_id,
                !.calls = Append(rq.calls, VespaCall(res.query, ok))]
        IN  Proceed(r, res.exc,
                    NextStage(rq.op, "metadata", rq.base_vector, segment_id),
                    updated)
    /\ UNCHANGED <<store, cache, settings>>

\* base_vector = self._fetch_segment_vector(...)
SegmentStage(r) ==
    /\ req[r].pc = "segment"
    /\ \E ok \in BOOLEAN :
        LET rq == req[r]
            res == FetchSegmentVector(SourceType(rq.op), rq.segment_id, store, ok)
            updated == [rq EXCEPT
                !.base_vector = res.value,
                !.calls = Append(rq.calls, VespaCall(res.query, ok))]
        IN  Proceed(r, res.exc,
                    NextStage(rq.op, "segment", res.value, rq.segment_id),
                    updated)
    /\ UNCHANGED <<store, cache, settings>>

\* user_vector = self._compute_realtime_vector(...)
BlendStage(r) ==
    /\ req[r].pc = "blend"
    /\ \E ok \in BOOLEAN :
        LET rq == req[r]
            res == ComputeRealtimeVector(rq.base_vector, TargetType(rq.op),
                                         rq.recent_interactions, store,
                                         settings, ok)
            updated == [rq EXCEPT
                !.query_vector = res.value,
                !.steps = res.steps,
                !.calls = rq.calls \o [i \in 1..Len(res.queries) |->
                                          VespaCall(res.queries[i], ok)]]
        IN  Proceed(r, res.exc,
                    NextStage(rq.op, "blend", rq.base_vector, rq.segment_id),
                    updated)
    /\ UNCHANGED <<store, cache, settings>>

\* results = self._search_nearest(...); return [projected results]
SearchStage(r) ==
    /\ req[r].pc = "search"
    /\ \E ok \in BOOLEAN :
        LET rq == req[r]
            query == SearchNearestQuery(TargetType(rq.op), rq.query_vector,
                                        NoneInt, NoneInt, settings)
        IN  \E raw \in AnnResponses(store, query, TargetType(rq.op)) :
            LET res == SearchNearest(TargetType(rq.op), rq.query_vector,
                                     NoneInt, NoneInt, settings, ok, raw)
                updated == [rq EXCEPT
                    !.calls = Append(rq.calls, VespaCall(res.query, ok))]
            IN  IF res.exc # NoExc THEN Proceed(r, res.exc, "return", updated)
                ELSE req' = [req EXCEPT ![r] = [updated EXCEPT
                        !.pc = "finished",
                        !.raw_hits = raw,
                        !.outcome = Returned(ProjectAll(res.value,
                                                        TargetType(rq.op)))]]
    /\ UNCHANGED <<store, cache, settings>>

\* recommend_product / recommend_user: the envelope around the results; an
\* exception leaves the route as the error response of its status
Envelope(op, id, results) ==
    IF op = "get_product_recommendations"
    THEN [uid |-> id, recommendations |-> results]
    ELSE [pid |-> id, target_users |-> results]

Route(r) ==
    /\ req[r].pc = "finished"
    /\ LET rq == req[r]
       IN  req' = [req EXCEPT
              ![r].pc = "done",
              ![r].response =
                 IF rq.outcome.kind = "return"
                 THEN [status |-> 200,
                       body |-> Envelope(rq.op, rq.id, rq.outcome.value)]
                 ELSE IF rq.outcome.exc.kind = "HTTPException"
                 THEN [status |-> rq.outcome.exc.status,
                       body |-> [detail |-> rq.outcome.exc.detail]]
                 ELSE [status |-> 500,
                       body |-> [detail |-> <<"Internal Server Error">>]]]
    /\ UNCHANGED <<store, cache, settings>>

(***************************************************************************)
(* The contents the store and the cache may have, and the settings         *)
(***************************************************************************)
UserVectorDoc(uid, model_version, embedding) ==
    [uid |-> uid, model_version |-> model_version, embedding |-> embedding,
     country |-> "KR", state |-> "Seoul", zipcode |-> "04524"]

ProductVectorDoc(pid, model_version, embedding) ==
    [pid |-> pid, model_version |-> model_version, embedding |-> embedding,
     name |-> "name-" \o pid, categories |-> "categories-" \o pid]

UserDoc(uid) ==
    [uid |-> uid, country |-> "KR", state |-> "Seoul", zipcode |-> "04524"]

UserDocInSegment(uid, segment_id) ==
    [uid |-> uid, country |-> "KR", state |-> "Seoul", zipcode |-> "04524",
     segment_id |-> segment_id]

SegmentDoc(segment_id, embedding) ==
    [segment_id |-> segment_id, embedding |-> embedding]

ColdStartDoc(strategy_id, rank, pid) ==
    [strategy_id |-> strategy_id, rank |-> rank, pid |-> pid,
     name |-> "name-" \o pid, categories |-> "categories-" \o pid]

UserIds == {"u1", "u2"}

ProductIds == {"a", "b"}

UserVectorChoices ==
    { {},
      {UserVectorDoc("u1", "v2", <<300, 400>>)},
      {UserVectorDoc("u1", "v1", <<300, 400>>)} }

ProductVectorChoices ==
    { {},
      {ProductVectorDoc("a", "v2", <<1000, 0>>)},
      {ProductVectorDoc("a", "v2", <<1000, 0>>),
       ProductVectorDoc("b", "v2", <<0, 500>>)} }

UserChoices ==
    { {}, {UserDoc("u1")}, {UserDocInSegment("u1", "S1")} }

UserSegmentChoices ==
    { {}, {SegmentDoc("S1", <<400, 300>>)} }

ColdStartChoices ==
    { {},
      {ColdStartDoc("global", 2, "a"), ColdStartDoc("global", 1, "b"),
       ColdStartDoc("seasonal", 1, "a")} }

\* a cache entry "timestamp:id" as the writer of the cache formats it
Entry(event_ts, id_chars) == Digits(event_ts) \o <<":">> \o id_chars

\* n events one half-life apart, the newest first, on products a and b in
\* turn
EventRun(n) ==
    [k \in 1..n |-> Entry(Now - (k - 1) * HALF_LIFE,
                          IF k % 2 = 1 THEN <<"a">> ELSE <<"b">>)]

\* the lists the cache may hold under the key of user u1
UserEventChoices ==
    { <<>>,
      <<Entry(Now, <<"a">>)>>,
      <<Entry(Now, <<"a">>), Entry(Now - HALF_LIFE, <<"b">>)>>,
      <<Entry(Now - 1800, <<"x">>)>>,
      <<Entry(Now, <<"x">>), Entry(Now - HALF_LIFE, <<"a">>)>>,
      <<Entry(Now + HALF_LIFE, <<"b">>), Entry(Now - 2 * HALF_LIFE, <<"a">>)>>,
      <<Entry(0, <<"a">>)>>,
      <<Entry(0, <<"a">>), Entry(HALF_LIFE, <<"b">>)>>,
      <<Entry(Now, <<"a", ":", "b">>)>>,
      <<<<"a", "b">>>>,
      <<<<"x", ":", "a">>>>,
      EventRun(CacheWindow + 1) }

\* the lists the cache may hold under the key of product a
ProductEventChoices ==
    { <<>>, <<Entry(Now, <<"u", "1">>)>> }

\* settings.recommend_alpha and settings.recommend_beta of the settings object
\* the service is constructed with; settings holds the attributes the
\* service reads from that object
BlendWeightChoices == { <<7, 3>>, <<1, 1>> }

Init ==
    /\ \E uv \in UserVectorChoices, pv \in ProductVectorChoices,
          u \in UserChoices, us \in UserSegmentChoices,
          cs \in ColdStartChoices :
          store = [user_vector |-> uv, product_vector |-> pv, user |-> u,
                   user_segment |-> us, product_cold_start |-> cs]
    /\ \E ue \in UserEventChoices, pe \in ProductEventChoices :
          cache = (IF ue = <<>> THEN <<>> ELSE (RedisKey("user", "u1") :> ue))
                  @@ (IF pe = <<>> THEN <<>> ELSE (RedisKey("product", "a") :> pe))
    /\ \E w \in BlendWeightChoices :
          settings = [latest_model_version |-> "v2",
                      recommend_hits |-> DefaultHits,
                      recommend_target_hits |-> DefaultTargetHits,
                      recommend_alpha |-> w[1], recommend_beta |-> w[2]]
    /\ req = [r \in {1} |-> IdleRequest]

RecommendProduct ==
    \E r \in DOMAIN req, id \in UserIds :
        Request(r, "get_product_recommendations", id)

RecommendUser ==
    \E r \in DOMAIN req, id \in ProductIds : Request(r, "get_target_users", id)

FetchVectorStep == \E r \in DOMAIN req : FetchVectorStage(r)

RecentStep == \E r \in DOMAIN req : RecentStage(r)

MetadataStep == \E r \in DOMAIN req : MetadataStage(r)

SegmentStep == \E r \in DOMAIN req : SegmentStage(r)

BlendStep == \E r \in DOMAIN req : BlendStage(r)

SearchStep == \E r \in DOMAIN req : SearchStage(r)

RouteStep == \E r \in DOMAIN req : Route(r)

Next ==
    \/ RecommendProduct
    \/ RecommendUser
    \/ FetchVectorStep
    \/ RecentStep
    \/ MetadataStep
    \/ SegmentStep
    \/ BlendStep
    \/ SearchStep
    \/ RouteStep

Spec == Init /\ [][Next]_vars

(***************************************************************************)
(* _search_nearest on its own, called with every combination of arguments  *)
(* its signature allows (the public operations always omit hits and        *)
(* target_hits)                                                            *)
(***************************************************************************)
\* hits / target_hits as a caller may pass them: omitted (None), 0, or more
HitsArgs == {NoneInt, 0, 1, 2}

TargetHitsArgs == {NoneInt, 0, 1, 3}

QueryVectorArgs == { <<600, 800>>, <<1000, 0>> }

\* settings.recommend_hits and settings.recommend_target_hits
SearchSettingChoices == { <<DefaultHits, DefaultTargetHits>>, <<1, 2>> }

IdleSearch ==
    [pc |-> "idle", target_doc_type |-> "", query_vector |-> NoVector,
     hits |-> NoneInt, target_hits |-> NoneInt, calls |-> <<>>,
     raw_hits |-> <<>>, outcome |-> NoOutcome]

SearchInit ==
    /\ \E uv \in UserVectorChoices, pv \in ProductVectorChoices :
          store = [user_vector |-> uv, product_vector |-> pv, user |-> {},
                   user_segment |-> {}, product_cold_start |-> {}]
    /\ cache = <<>>
    /\ \E c \in SearchSettingChoices :
          settings = [latest_model_version |-> "v2",
                      recommend_hits |-> c[1],
                      recommend_target_hits |-> c[2],
                      recommend_alpha |-> 1, recommend_beta |-> 1]
    /\ req = [r \in {1} |-> IdleSearch]

\* _search_nearest is called with these arguments
SearchCall(r, target_doc_type, query_vector, hits, target_hits) ==
    /\ req[r].pc = "idle"
    /\ req' = [req EXCEPT ![r] = [IdleSearch EXCEPT
                  !.pc = "search", !.target_doc_type = target_doc_type,
                  !.query_vector = query_vector, !.hits = hits,
                  !.target_hits = target_hits]]
    /\ UNCHANGED <<store, cache, settings>>

\* the body of _search_nearest: one query, and the fields of its hits
SearchRun(r) ==
    /\ req[r].pc = "search"
    /\ \E ok \in BOOLEAN :
        LET rq == req[r]
            query == SearchNearestQuery(rq.target_doc_type, rq.query_vector,
                                        rq.hits, rq.target_hits, settings)
        IN  \E raw \in AnnResponses(store, query, rq.target_doc_type) :
            LET res == SearchNearest(rq.target_doc_type, rq.query_vector,
                                     rq.hits, rq.target_hits, settings, ok,
                                     raw)
            IN  req' = [req EXCEPT ![r] = [rq EXCEPT
                    !.pc = "finished",
                    !.calls = Append(rq.calls, VespaCall(res.query, ok)),
                    !.raw_hits = IF ok THEN raw ELSE <<>>,
                    !.outcome = IF res.exc # NoExc THEN Raised(res.exc)
                                ELSE Returned(res.value)]]
    /\ UNCHANGED <<store, cache, settings>>

SearchCallStep ==
    \E r \in DOMAIN req, target_doc_type \in {"user", "product"},
       query_vector \in QueryVectorArgs, hits \in HitsArgs,
       target_hits \in TargetHitsArgs :
        SearchCall(r, target_doc_type, query_vector, hits, target_hits)

SearchRunStep == \E r \in DOMAIN req : SearchRun(r)

SearchNext ==
    \/ SearchCallStep
    \/ SearchRunStep

SearchSpec == SearchInit /\ [][SearchNext]_vars

(***************************************************************************)
(* Two requests at a time: each has a service object of its own            *)
(* (Depends(RecommendationService)), and their stages interleave freely    *)
(***************************************************************************)
ConcurrentSlots == {1, 2}

ConcurrentInit ==
    /\ \E uv \in {{}, {UserVectorDoc("u1", "v2", <<300, 400>>)}} :
          store = [user_vector |-> uv,
                   product_vector |-> {ProductVectorDoc("a", "v2", <<1000, 0>>)},
                   user |-> {UserDocInSegment("u1", "S1")},
                   user_segment |-> {SegmentDoc("S1", <<400, 300>>)},
                   product_cold_start |-> {ColdStartDoc("global", 1, "a")}]
    /\ \E ue \in {<<>>, <<Entry(Now - HALF_LIFE, <<"a">>)>>} :
          cache = IF ue = <<>> THEN <<>> ELSE (RedisKey("user", "u1") :> ue)
    /\ settings = [latest_model_version |-> "v2",
                   recommend_hits |-> DefaultHits,
                   recommend_target_hits |-> DefaultTargetHits,
                   recommend_alpha |-> 7, recommend_beta |-> 3]
    /\ req = [r \in ConcurrentSlots |-> IdleRequest]

ConcurrentSpec == ConcurrentInit /\ [][Next]_vars

(***************************************************************************)
(* The three lookups on their own: each is called twice with the same      *)
(* arguments, and the store may answer with hits that lack part of the     *)
(* fields / embedding / values structure                                   *)
(***************************************************************************)
LookupNames == {"_fetch_vector", "_fetch_segment_vector", "_fetch_metadata"}

SegmentIds == {"S1", "S9"}

\* the ids a lookup may be called with: <<doc_type, id>>
LookupArgs(fn) ==
    IF fn = "_fetch_segment_vector" THEN {<<"user", s>> : s \in SegmentIds}
    ELSE IF fn = "_fetch_metadata" THEN {<<"user", u>> : u \in UserIds}
    ELSE {<<"user", u>> : u \in UserIds} \cup {<<"product", p>> : p \in ProductIds}

LookupQuery(fn, doc_type, id, stg) ==
    IF fn = "_fetch_vector" THEN FetchVectorQuery(doc_type, id, stg)
    ELSE IF fn = "_fetch_segment_vector"
    THEN FetchSegmentVectorQuery(doc_type, id)
    ELSE FetchMetadataQuery(doc_type, id)

\* a hit that came without its fields, without the embedding among them,
\* or with an embedding without values
MalformedShapes == {"no_fields", "no_embedding", "no_values"}

MalformedHit(shape) ==
    IF shape = "no_fields" THEN [relevance |-> "score"]
    ELSE IF shape = "no_embedding"
    THEN [relevance |-> "score", fields |-> [sddocname |-> "doc"]]
    ELSE [relevance |-> "score",
          fields |-> [embedding |-> [type |-> "tensor"]]]

\* what the store may answer a lookup with: the hits its content gives, or
\* a first hit of one of the malformed shapes
LookupResponses(st, query) ==
    {StoreHits(st, query)}
        \cup {<<MalformedHit(shape)>> : shape \in MalformedShapes}

LookupFrom(fn, doc_type, id, stg, ok, raw) ==
    IF fn = "_fetch_vector" THEN FetchVectorFrom(doc_type, id, stg, ok, raw)
    ELSE IF fn = "_fetch_segment_vector"
    THEN FetchSegmentVectorFrom(doc_type, id, ok, raw)
    ELSE FetchMetadataFrom(doc_type, id, ok, raw)

IdleLookup ==
    [pc |-> "idle", fn |-> "", doc_type |-> "", id |-> "", log |-> <<>>]

LookupInit ==
    /\ \E uv \in UserVectorChoices, pv \in ProductVectorChoices,
          u \in UserChoices, us \in UserSegmentChoices :
          store = [user_vector |-> uv, product_vector |-> pv, user |-> u,
                   user_segment |-> us, product_cold_start |-> {}]
    /\ cache \in {<<>>, RedisKey("user", "u1") :> <<Entry(Now, <<"a">>)>>}
    /\ settings = [latest_model_version |-> "v2",
                   recommend_hits |-> DefaultHits,
                   recommend_target_hits |-> DefaultTargetHits,
                   recommend_alpha |-> 1, recommend_beta |-> 1]
    /\ req = [r \in {1} |-> IdleLookup]

\* the caller picks a lookup and its arguments
LookupCall(r, fn, doc_type, id) ==
    /\ req[r].pc = "idle"
    /\ req' = [req EXCEPT ![r] = [IdleLookup EXCEPT
                  !.pc = "first", !.fn = fn, !.doc_type = doc_type,
                  !.id = id]]
    /\ UNCHANGED <<store, cache, settings>>

\* one call of the lookup; the log keeps what the call could observe
\* (before), what the store answered and what the call gave back
LookupRun(r) ==
    /\ req[r].pc \in {"first", "second"}
    /\ LET rq == req[r]
           query == LookupQuery(rq.fn, rq.doc_type, rq.id, settings)
       IN  \E ok \in BOOLEAN, raw \in LookupResponses(store, query) :
           LET res == LookupFrom(rq.fn, rq.doc_type, rq.id, settings, ok, raw)
           IN  req' = [req EXCEPT ![r] = [rq EXCEPT
                   !.pc = IF rq.pc = "first" THEN "second" ELSE "finished",
                   !.log = Append(rq.log,
                       [before |-> <<store, cache, settings>>,
                        query |-> res.query, ok |-> ok,
                        raw |-> IF ok THEN raw ELSE <<>>,
                        exc |-> res.exc, value |-> res.value])]]
    /\ UNCHANGED <<store, cache, settings>>

LookupCallStep ==
    \E r \in DOMAIN req, fn \in LookupNames :
        \E a \in LookupArgs(fn) : LookupCall(r, fn, a[1], a[2])

LookupRunStep == \E r \in DOMAIN req : LookupRun(r)

LookupNext ==
    \/ LookupCallStep
    \/ LookupRunStep

LookupSpec == LookupInit /\ [][LookupNext]_vars

(***************************************************************************)
(* What the store and the cache hold, read off their contents directly     *)
(***************************************************************************)
EmbeddingDocs(doc_type, id) ==
    {d \in store[doc_type \o "_vector"] :
        /\ d[IdField(doc_type)] = id
        /\ d.model_version = settings.latest_model_version}

HasEmbedding(doc_type, id) == EmbeddingDocs(doc_type, id) # {}

StoredEmbedding(doc_type, id) ==
    (CHOOSE d \in EmbeddingDocs(doc_type, id) : TRUE).embedding

HasMetadata(uid) == \E d \in store.user : d.uid = uid

\* the segment_id the metadata of uid carries, None if it carries none
SegmentOf(uid) ==
    IF \E d \in store.user : d.uid = uid /\ "segment_id" \in DOMAIN d
    THEN (CHOOSE d \in store.user : d.uid = uid).segment_id
    ELSE None

HasSegmentEmbedding(segment_id) ==
    \E d \in store.user_segment : d.segment_id = segment_id

SegmentEmbedding(segment_id) ==
    (CHOOSE d \in store.user_segment : d.segment_id = segment_id).embedding

CachedEvents(doc_type, id) ==
    IF RedisKey(doc_type, id) \in DOMAIN cache
    THEN cache[RedisKey(doc_type, id)] ELSE <<>>

\* every entry is "digits:id"
WellFormed(events) ==
    \A i \in 1..Len(events) :
        /\ Len(Split(events[i])) >= 2
        /\ FloatOk(Split(events[i])[1])

AllCallsOk(rq) == \A i \in 1..Len(rq.calls) : rq.calls[i].ok

CallKinds(rq) == [i \in 1..Len(rq.calls) |-> rq.calls[i].query.kind]

CallsOfKind(rq, kind) ==
    {i \in 1..Len(rq.calls) : rq.calls[i].query.kind = kind}

Ended(rq) == rq.pc \in {"finished", "done"}

IsProducts(rq) == rq.op = "get_product_recommendations"

IsNotFound(outcome) ==
    /\ outcome.kind = "raise"
    /\ outcome.exc.kind = "HTTPException"
    /\ outcome.exc.status = 404

(***************************************************************************)
(* C1: recommend_products_for(uid) with no embedding and no metadata for   *)
(* uid, all external calls succeeding, fails with NotFound (404) whose     *)
(* message contains uid, and dispatches no nearest-neighbor query.         *)
(***************************************************************************)
C1_UnknownUserIsNotFound ==
    \A r \in DOMAIN req :
        LET rq == req[r]
        IN  (IsProducts(rq) /\ ~HasEmbedding("user", rq.id)
                /\ ~HasMetadata(rq.id))
            => /\ CallsOfKind(rq, "nn") = {}
               /\ (Ended(rq) /\ AllCallsOk(rq))
                    => /\ IsNotFound(rq.outcome)
                       /\ rq.id \in Range(rq.outcome.exc.detail)
               /\ (rq.pc = "done" /\ AllCallsOk(rq))
                    => rq.response.status = 404

C1_Witness ==
    \E r \in DOMAIN req :
        /\ IsProducts(req[r]) /\ req[r].id = "u1" /\ req[r].pc = "done"
        /\ ~HasEmbedding("user", "u1") /\ ~HasMetadata("u1")
        /\ AllCallsOk(req[r])
        /\ req[r].response.status = 404
        /\ CallKinds(req[r]) = <<"vector", "lrange", "metadata">>

(***************************************************************************)
(* C2: recommend_products_for(uid) with a base embedding for uid and no    *)
(* recent events in the cache hands exactly the stored base vector to the  *)
(* nearest-neighbor query, and issues no embedding batch fetch.            *)
(***************************************************************************)
C2_NoEventsDispatchesBaseVector ==
    \A r \in DOMAIN req :
        LET rq == req[r]
        IN  (IsProducts(rq) /\ HasEmbedding("user", rq.id)
                /\ CachedEvents("user", rq.id) = <<>>)
            => /\ \A i \in CallsOfKind(rq, "nn") :
                    rq.calls[i].query.q = StoredEmbedding("user", rq.id)
               /\ CallsOfKind(rq, "batch") = {}
               /\ (Ended(rq) /\ AllCallsOk(rq))
                    => /\ CallsOfKind(rq, "nn") # {}
                       /\ rq.outcome.kind = "return"

C2_Witness ==
    \E r \in DOMAIN req :
        /\ IsProducts(req[r]) /\ req[r].pc = "done"
        /\ HasEmbedding("user", req[r].id)
        /\ CachedEvents("user", req[r].id) = <<>>
        /\ CallKinds(req[r]) = <<"vector", "lrange", "nn">>
        /\ req[r].calls[3].ok
        /\ req[r].calls[3].query.q = <<300, 400>>

(***************************************************************************)
(* C3: recommend_products_for(uid) with no base embedding, a segment_id in *)
(* the metadata and a segment embedding for it goes through blend and then *)
(* the nearest-neighbor query with the segment embedding as base vector    *)
(* (the recent events of uid blended into it), and ends with a projected   *)
(* product list.  External calls succeed and the cache entries are of the  *)
(* form "timestamp:id".                                                    *)
(***************************************************************************)
C3_SegmentVectorIsBlendedAndDispatched ==
    \A r \in DOMAIN req :
        LET rq == req[r]
            seg == SegmentOf(rq.id)
            events == Take(CachedEvents("user", rq.id), CacheWindow)
        IN  (IsProducts(rq) /\ ~HasEmbedding("user", rq.id)
                /\ TruthyStr(seg) /\ HasSegmentEmbedding(seg)
                /\ WellFormed(events) /\ Ended(rq) /\ AllCallsOk(rq))
            => /\ rq.outcome.kind = "return"
               /\ rq.base_vector = SegmentEmbedding(seg)
               /\ CallKinds(rq) =
                    <<"vector", "lrange", "metadata", "segment">>
                    \o (IF events = <<>> THEN <<>> ELSE <<"batch">>)
                    \o <<"nn">>
               /\ rq.calls[Len(rq.calls)].query.q =
                    ComputeRealtimeVector(SegmentEmbedding(seg), "product",
                                          events, store, settings, TRUE).value
               /\ \A i \in 1..Len(rq.outcome.value) :
                    DOMAIN rq.outcome.value[i] = {"pid", "name", "categories"}

C3_Witness ==
    \E r \in DOMAIN req :
        /\ IsProducts(req[r]) /\ req[r].pc = "done"
        /\ ~HasEmbedding("user", req[r].id)
        /\ TruthyStr(SegmentOf(req[r].id))
        /\ AllCallsOk(req[r])
        /\ req[r].base_vector = <<400, 300>>
        /\ req[r].steps.branch = "blended"
        /\ req[r].query_vector # req[r].base_vector
        /\ CallKinds(req[r]) =
              <<"vector", "lrange", "metadata", "segment", "batch", "nn">>
        /\ Len(req[r].outcome.value) = 2

(***************************************************************************)
(* C4: recommend_products_for(uid) with no base embedding and metadata     *)
(* that carries no segment_id returns the cold-start entries of strategy   *)
(* "global", by ascending rank, cut to the configured result count (an     *)
(* empty list only when there are no such rows).                           *)
(***************************************************************************)
RECURSIVE ByRank(_)
ByRank(rows) ==
    IF rows = {} THEN <<>>
    ELSE LET first == CHOOSE d \in rows : \A e \in rows : d.rank <= e.rank
         IN  <<first>> \o ByRank(rows \ {first})

ColdStartList(strategy_id) ==
    LET rows == ByRank({d \in store.product_cold_start :
                           d.strategy_id = strategy_id})
    IN  Take([i \in 1..Len(rows) |-> Project(rows[i], "product")],
             settings.recommend_hits)

C4_ColdStartListReturned ==
    \A r \in DOMAIN req :
        LET rq == req[r]
        IN  (IsProducts(rq) /\ ~HasEmbedding("user", rq.id)
                /\ HasMetadata(rq.id) /\ ~TruthyStr(SegmentOf(rq.id))
                /\ Ended(rq) /\ AllCallsOk(rq))
            => /\ rq.outcome.kind = "return"
               /\ rq.outcome.value = ColdStartList("global")

(***************************************************************************)
(* C5: recommend_products_for(uid) with no base embedding, a segment_id in *)
(* the metadata and no segment embedding for it fails with NotFound (404); *)
(* it returns no list, flat or empty, and dispatches no nearest-neighbor   *)
(* query.                                                                  *)
(***************************************************************************)
C5_MissingSegmentVectorIsNotFound ==
    \A r \in DOMAIN req :
        LET rq == req[r]
            seg == SegmentOf(rq.id)
        IN  (IsProducts(rq) /\ ~HasEmbedding("user", rq.id)
                /\ TruthyStr(seg) /\ ~HasSegmentEmbedding(seg))
            => /\ CallsOfKind(rq, "nn") = {}
               /\ rq.outcome.kind # "return"
               /\ (Ended(rq) /\ AllCallsOk(rq))
                    => /\ IsNotFound(rq.outcome)
                       /\ seg \in Range(rq.outcome.exc.detail)

C5_Witness ==
    \E r \in DOMAIN req :
        /\ IsProducts(req[r]) /\ req[r].pc = "done"
        /\ ~HasEmbedding("user", req[r].id)
        /\ SegmentOf(req[r].id) = "S1" /\ ~HasSegmentEmbedding("S1")
        /\ ColdStartList("global") # <<>>
        /\ AllCallsOk(req[r])
        /\ CallKinds(req[r]) = <<"vector", "lrange", "metadata", "segment">>
        /\ req[r].response.status = 404

(***************************************************************************)
(* C6: in both public operations a nearest-neighbor query is issued only   *)
(* with a base vector that was found: no query carries an absent query     *)
(* vector; recommend_users_for(pid) with no embedding for pid issues none. *)
(***************************************************************************)
C6_NoDispatchWithoutBaseVector ==
    \A r \in DOMAIN req :
        \A i \in CallsOfKind(req[r], "nn") :
            req[r].calls[i].query.q # NoVector

(***************************************************************************)
(* C7: recommend_users_for(pid) never reads the session cache and never    *)
(* blends: with a product embedding for pid, the query vector sent to the  *)
(* user vector index is exactly that embedding, whatever the cache holds.  *)
(***************************************************************************)
C7_TargetUsersUsesStoredVector ==
    \A r \in DOMAIN req :
        LET rq == req[r]
        IN  rq.op = "get_target_users"
            => /\ \A i \in 1..Len(rq.calls) : rq.calls[i].svc # "redis"
               /\ CallsOfKind(rq, "batch") = {}
               /\ HasEmbedding("product", rq.id)
                    => /\ \A i \in CallsOfKind(rq, "nn") :
                            /\ rq.calls[i].query.q
                                  = StoredEmbedding("product", rq.id)
                            /\ rq.calls[i].query.schema = "user_vector"
                       /\ (Ended(rq) /\ AllCallsOk(rq))
                            => CallKinds(rq) = <<"vector", "nn">>

C7_Witness ==
    \E r \in DOMAIN req :
        /\ req[r].op = "get_target_users" /\ req[r].id = "a"
        /\ req[r].pc = "done"
        /\ HasEmbedding("product", "a")
        /\ CachedEvents("product", "a") # <<>>
        /\ HasEmbedding("user", "u1")
        /\ AllCallsOk(req[r])
        /\ req[r].calls[2].query.q = <<1000, 0>>
        /\ Len(req[r].outcome.value) = 1

(***************************************************************************)
(* C8: blend called with an empty recent_events sequence returns           *)
(* base_vector unchanged, whatever base_vector is (not normalized, not     *)
(* scaled), and performs no store query.                                   *)
(***************************************************************************)
C8_BlendOfNoEventsIsBase ==
    [][\A r \in DOMAIN req :
          (req[r].pc = "blend" /\ req[r].recent_interactions = <<>>
              /\ req'[r].pc # "blend")
          => /\ req'[r].query_vector = req[r].base_vector
             /\ req'[r].calls = req[r].calls
             /\ req'[r].pc = "search"]_vars

C8_Witness ==
    \E r \in DOMAIN req :
        /\ req[r].pc = "search" /\ IsProducts(req[r])
        /\ req[r].recent_interactions = <<>>
        /\ req[r].base_vector = <<400, 300>>
        /\ req[r].query_vector = <<400, 300>>
        /\ normalize_vector(req[r].base_vector) # req[r].base_vector

(***************************************************************************)
(* C9: in blend, a recent event whose id has no embedding in the batch     *)
(* fetch is dropped silently: it adds nothing to the weighted vectors nor  *)
(* to the sum of weights, raises nothing, and the result is the blend over *)
(* the events whose ids resolved.                                          *)
(***************************************************************************)
EventId(entry) == Join(Split(entry)[2])

EventTs(entry) == FloatOf(Split(entry)[1])

Resolves(entry) == HasEmbedding("product", EventId(entry))

ResolvedOnly(events) == SelectSeq(events, Resolves)

BatchReturned(rq) ==
    \E i \in CallsOfKind(rq, "batch") : rq.calls[i].ok

C9_UnresolvedEventsAreDropped ==
    \A r \in DOMAIN req :
        LET rq == req[r]
            kept == ResolvedOnly(rq.recent_interactions)
        IN  (IsProducts(rq) /\ BatchReturned(rq) /\ kept # <<>>)
            => /\ Len(rq.steps.weighted_vectors) = Len(kept)
               /\ rq.steps.total_weight =
                    SumSeq([i \in 1..Len(kept) |->
                               DecayWeight(DeltaT(EventTs(kept[i])))])
               /\ rq.query_vector =
                    ComputeRealtimeVector(rq.base_vector, "product", kept,
                                          store, settings, TRUE).value
               /\ rq.pc = "search" \/ CallsOfKind(rq, "nn") # {}

C9_Witness ==
    \E r \in DOMAIN req :
        /\ IsProducts(req[r]) /\ req[r].pc = "search"
        /\ Len(req[r].recent_interactions) = 2
        /\ ~Resolves(req[r].recent_interactions[1])
        /\ Resolves(req[r].recent_interactions[2])
        /\ BatchReturned(req[r])
        /\ Len(req[r].steps.weighted_vectors) = 1
        /\ req[r].steps.total_weight = WScale \div 2

(***************************************************************************)
(* C10: in blend with recent events of which the batch fetch resolves      *)
(* none, the result is base_vector unchanged and the decay and             *)
(* normalization steps do not run (nothing is divided by a zero weight     *)
(* sum).                                                                   *)
(***************************************************************************)
C10_NoneResolvedIsBase ==
    \A r \in DOMAIN req :
        LET rq == req[r]
        IN  (IsProducts(rq) /\ BatchReturned(rq)
                /\ rq.recent_interactions # <<>>
                /\ ResolvedOnly(rq.recent_interactions) = <<>>)
            => /\ rq.query_vector = rq.base_vector
               /\ ~IsNaNVec(rq.query_vector)
               /\ rq.steps.weighted_vectors = <<>>
               /\ rq.steps.total_weight = 0
               /\ rq.pc = "search" \/ CallsOfKind(rq, "nn") # {}

C10_Witness ==
    \E r \in DOMAIN req :
        /\ IsProducts(req[r]) /\ req[r].pc = "search"
        /\ req[r].recent_interactions # <<>>
        /\ ResolvedOnly(req[r].recent_interactions) = <<>>
        /\ BatchReturned(req[r])
        /\ store.product_vector # {}
        /\ req[r].base_vector = <<300, 400>>
        /\ req[r].query_vector = <<300, 400>>

(***************************************************************************)
(* C11: the decay weight of an event depends only on                      *)
(* elapsed = max(0, now - event_timestamp): it is 1 at event_timestamp =   *)
(* now and for every later event_timestamp, one half at one half-life, and *)
(* strictly smaller for a strictly larger elapsed time.                    *)
(***************************************************************************)
Elapsed(event_ts) == IF event_ts >= Now THEN 0 ELSE Now - event_ts

\* the weights the blend of request rq computed, one per resolved event
WeightsOf(rq) == Range(rq.steps.weights)

\* the weights at now, after now and at one half-life (within one unit of
\* the resolution), and equal weights for equal elapsed times
DecayFixedPoints(rq) ==
    \A x \in WeightsOf(rq) :
        /\ Elapsed(x.event_ts) = 0 => x.weight = WScale
        /\ Elapsed(x.event_ts) = HALF_LIFE
              => (2 * x.weight <= WScale /\ WScale <= 2 * x.weight + 1)
        /\ \A y \in WeightsOf(rq) :
              Elapsed(x.event_ts) = Elapsed(y.event_ts) => x.weight = y.weight

TwoEventBlend(rq, first) ==
    /\ IsProducts(rq) /\ BatchReturned(rq)
    /\ Len(rq.recent_interactions) = 2
    /\ first \in {1, 2}
    /\ Resolves(rq.recent_interactions[1])
    /\ Resolves(rq.recent_interactions[2])
    /\ Elapsed(EventTs(rq.recent_interactions[first])) = 0
    /\ Elapsed(EventTs(rq.recent_interactions[3 - first])) = HALF_LIFE

\* (1.0*v1 + 0.5*v2) / 1.5, the weights in units of 1/WScale
WeightedMean(v1, v2) ==
    [i \in 1..Len(v1) |->
        DivT(WScale * v1[i] + (WScale \div 2) * v2[i],
             WScale + WScale \div 2)]

ExpectedBlend(alpha, base, beta, v1, v2) ==
    LET recent == normalize_vector(WeightedMean(v1, v2))
    IN  normalize_vector([i \in 1..Len(base) |->
                             alpha * base[i] + beta * recent[i]])

C12_TwoEventBlendFormula ==
    \A r \in DOMAIN req : \A first \in {1, 2} :
        LET rq == req[r] IN
        TwoEventBlend(rq, first)
        => rq.query_vector =
             ExpectedBlend(
               settings.recommend_alpha, rq.base_vector,
               settings.recommend_beta,
               StoredEmbedding("product",
                               EventId(rq.recent_interactions[first])),
               StoredEmbedding("product",
                               EventId(rq.recent_interactions[3 - first])))

C12_Witness ==
    \E r \in DOMAIN req :
        /\ TwoEventBlend(req[r], 1)
        /\ req[r].pc = "search"
        /\ req[r].base_vector = <<300, 400>>
        /\ settings.recommend_alpha = 7 /\ settings.recommend_beta = 3
        /\ req[r].steps.total_weight = WScale + WScale \div 2
        /\ req[r].query_vector # req[r].base_vector
        /\ ~IsNaNVec(req[r].query_vector)

(***************************************************************************)
(* C13: on every path of both public operations, every query vector passed *)
(* to the nearest-neighbor dispatcher (_search_nearest) is L2-normalized   *)
(* or is the zero vector, including the paths where blend returns the base *)
(* vector unchanged (no events, or no resolved embeddings), the            *)
(* segment-vector path, and the product->user path.                        *)
(***************************************************************************)
\* a norm of 1 within the rounding of the components
IsUnitNorm(v) ==
    /\ Len(v) > 0 /\ ~IsNaNVec(v)
    /\ Norm(v) <= VScale /\ VScale - Norm(v) <= Len(v)

IsZeroVec(v) == Len(v) > 0 /\ \A i \in 1..Len(v) : v[i] = 0

\* the query vectors of the nearest-neighbor calls of request rq
Dispatched(rq) == {rq.calls[i].query.q : i \in CallsOfKind(rq, "nn")}

C13_DispatchedVectorsAreNormalized ==
    \A r \in DOMAIN req :
        \A q \in Dispatched(req[r]) : IsUnitNorm(q) \/ IsZeroVec(q)

(***************************************************************************)
(* C14: the vector returned by blend has the same number of components as  *)
(* base_vector (and as each stored embedding), for every combination of    *)
(* recent events and resolved embeddings of that dimension.                *)
(***************************************************************************)
\* blend has returned a vector for request rq
BlendReturned(rq) == rq.steps.branch \in {"no_events", "unresolved", "blended"}

\* the embeddings the batch fetch resolves for the cached events of rq
ResolvedEmbeddings(rq) ==
    {StoredEmbedding("product", EventId(rq.recent_interactions[i])) :
        i \in {j \in 1..Len(rq.recent_interactions) :
                  Resolves(rq.recent_interactions[j])}}

C14_BlendKeepsDimension ==
    \A r \in DOMAIN req :
        LET rq == req[r] IN
        (/\ IsProducts(rq) /\ BlendReturned(rq)
         /\ \A e \in ResolvedEmbeddings(rq) : Len(e) = Len(rq.base_vector))
        => /\ Len(rq.query_vector) = Len(rq.base_vector)
           /\ \A e \in ResolvedEmbeddings(rq) : Len(rq.query_vector) = Len(e)

C14_Witness ==
    \E r \in DOMAIN req :
        /\ IsProducts(req[r]) /\ req[r].steps.branch = "blended"
        /\ Cardinality(ResolvedEmbeddings(req[r])) = 2
        /\ Len(req[r].steps.weighted_vectors) = 2
        /\ Len(req[r].base_vector) = 2
        /\ Len(req[r].query_vector) = 2
        /\ req[r].query_vector # req[r].base_vector

(***************************************************************************)
(* C15: the reference instant `now` used for decay weighting is an         *)
(* explicit input of the blender supplied by its caller: two blend calls   *)
(* with identical base vector, events, store content and configuration but *)
(* different supplied `now` values use those different instants, and two   *)
(* calls with the same `now` return identical results.                     *)
(***************************************************************************)
\* instants at which a caller may call the blender: the instant written
\* into the blender and one half-life after it
CallerInstants == {Now, Now + HALF_LIFE}

\* the weight of an event when the reference instant is `now`
WeightAt(now, event_ts) ==
    DecayWeight(IF now - event_ts > 0 THEN now - event_ts ELSE 0)

\* whatever instant the caller has, the weights of the blend are the
\* weights at that instant
C15_BlendWeighsAtCallerInstant ==
    \A r \in DOMAIN req : \A now \in CallerInstants :
        \A x \in WeightsOf(req[r]) : x.weight = WeightAt(now, x.event_ts)

(***************************************************************************)
(* C16: whenever a vector-store query raises any failure, the operation    *)
(* that issued it (base-vector lookup, segment lookup, metadata lookup,    *)
(* embedding batch fetch, or ANN search) fails with UpstreamQueryError     *)
(* (HTTP 500) after exactly one attempt: the store is not called again for *)
(* that query, no later stage of the request runs, and no recommendation   *)
(* list is returned.                                                       *)
(***************************************************************************)
\* the store queries of request rq that raised
FailedStoreCalls(rq) ==
    {i \in 1..Len(rq.calls) : rq.calls[i].svc = "vespa" /\ ~rq.calls[i].ok}

StoreQueryKinds == {"vector", "segment", "metadata", "batch", "nn"}

C16_StoreFailureIsUpstreamErrorOnce ==
    \A r \in DOMAIN req :
        LET rq == req[r] IN
        \A i \in FailedStoreCalls(rq) :
            /\ rq.calls[i].query.kind \in StoreQueryKinds
            /\ i = Len(rq.calls)
            /\ rq.pc \in {"finished", "done"}
            /\ rq.outcome.kind = "raise"
            /\ rq.outcome.exc.kind = "HTTPException"
            /\ rq.outcome.exc.status = 500
            /\ rq.pc = "done" => rq.response.status = 500

C16_Witness ==
    \E r \in DOMAIN req :
        /\ req[r].pc = "done"
        /\ Len(req[r].calls) = 3
        /\ FailedStoreCalls(req[r]) = {3}
        /\ req[r].calls[3].query.kind = "batch"
        /\ req[r].response.status = 500

(***************************************************************************)
(* C17: projection to the public shape.  Every element returned by         *)
(* recommend_products_for has exactly the keys {pid, name, categories} and *)
(* every element returned by recommend_users_for exactly {uid, country,    *)
(* state, zipcode}; a raw hit carrying all expected fields is reproduced   *)
(* with those values and no extra keys, store-internal hit metadata        *)
(* (document id, relevance) never appears, and a hit lacking a field (or   *)
(* lacking its fields mapping) yields an absent value for it rather than   *)
(* an error.                                                               *)
(***************************************************************************)
PublicKeys(op) ==
    IF op = "get_product_recommendations" THEN {"pid", "name", "categories"}
    ELSE {"uid", "country", "state", "zipcode"}

\* the nearest-neighbor search of request rq was answered
SearchAnswered(rq) == \E i \in CallsOfKind(rq, "nn") : rq.calls[i].ok

\* field f of raw hit h, or None when h does not carry it
RawField(h, f) ==
    IF "fields" \in DOMAIN h /\ f \in DOMAIN h.fields THEN h.fields[f]
    ELSE None

C17_ResultsHavePublicShape ==
    \A r \in DOMAIN req :
        LET rq == req[r] IN
        SearchAnswered(rq)
        => /\ rq.outcome.kind = "return"
           /\ Len(rq.outcome.value) = Len(rq.raw_hits)
           /\ \A i \in 1..Len(rq.raw_hits) :
                 /\ DOMAIN rq.outcome.value[i] = PublicKeys(rq.op)
                 /\ \A f \in PublicKeys(rq.op) :
                       rq.outcome.value[i][f] = RawField(rq.raw_hits[i], f)

C17_Witness ==
    \E r \in DOMAIN req :
        LET rq == req[r] IN
        /\ IsProducts(rq) /\ SearchAnswered(rq) /\ rq.pc = "done"
        /\ Len(rq.raw_hits) = 2
        /\ "fields" \in DOMAIN rq.raw_hits[1]
        /\ "name" \notin DOMAIN rq.raw_hits[1].fields
        /\ rq.outcome.value[1] =
              [pid |-> "b", name |-> None, categories |-> "categories-b"]
        /\ rq.outcome.value[2] =
              [pid |-> "a", name |-> "name-a", categories |-> "categories-a"]
        /\ rq.response.status = 200

(***************************************************************************)
(* C18: search (_search_nearest) uses the configured result count and      *)
(* candidate pool size exactly when the caller omits the corresponding     *)
(* argument; any explicitly supplied value (including 0) is used as given; *)
(* the ANN query asks the store for candidate_pool_size candidates         *)
(* (targetHits) and for result_count returned hits, against the target     *)
(* entity's vector index.                                                  *)
(***************************************************************************)
\* the value an argument stands for: the configured one when omitted
Effective(arg, configured) == IF arg = NoneInt THEN configured ELSE arg

C18_SearchUsesArgumentsOrConfiguration ==
    \A r \in DOMAIN req :
        LET rq == req[r] IN
        rq.pc = "finished"
        => /\ Len(rq.calls) = 1
           /\ LET query == rq.calls[1].query IN
              /\ query.kind = "nn"
              /\ query.schema = rq.target_doc_type \o "_vector"
              /\ query.id_field = "embedding"
              /\ query.q = rq.query_vector
              /\ query.hits = Effective(rq.hits, settings.recommend_hits)
              /\ query.target_hits =
                    Effective(rq.target_hits, settings.recommend_target_hits)

C18_Witness ==
    \E r \in DOMAIN req :
        LET rq == req[r] IN
        /\ rq.pc = "finished" /\ rq.target_doc_type = "product"
        /\ rq.hits = 0 /\ rq.target_hits = NoneInt
        /\ settings.recommend_target_hits = DefaultTargetHits
        /\ store.product_vector # {}
        /\ rq.calls[1].ok
        /\ rq.calls[1].query.hits = 0
        /\ rq.calls[1].query.target_hits = DefaultTargetHits
        /\ rq.outcome = Returned(<<>>)

(***************************************************************************)
(* C19: a zero-length result is a success, never a failure.  When the      *)
(* nearest-neighbor search (or the cold-start lookup) returns zero hits,   *)
(* the public operation completes normally with an empty list, and the     *)
(* transport layer returns the envelope with the requested id and an empty *)
(* list.                                                                   *)
(***************************************************************************)
\* the nearest-neighbor search of request rq was answered with no hits
ZeroHits(rq) == SearchAnswered(rq) /\ rq.raw_hits = <<>>

\* the user is known and has no vector and no segment: the cold-start
\* branch of the operation, which looks nothing up
ColdStartBranch(rq) ==
    /\ IsProducts(rq) /\ AllCallsOk(rq)
    /\ CallsOfKind(rq, "metadata") # {}
    /\ HasMetadata(rq.id)
    /\ ~TruthyStr(rq.segment_id)

EmptyEnvelope(rq) ==
    IF IsProducts(rq) THEN [uid |-> rq.id, recommendations |-> <<>>]
    ELSE [pid |-> rq.id, target_users |-> <<>>]

C19_ZeroHitsIsSuccess ==
    \A r \in DOMAIN req :
        LET rq == req[r] IN
        (ZeroHits(rq) \/ (ColdStartBranch(rq) /\ Ended(rq)))
        => /\ rq.outcome.kind = "return"
           /\ rq.outcome.value = <<>>
           /\ rq.pc = "done"
                 => rq.response = [status |-> 200, body |-> EmptyEnvelope(rq)]

C19_Witness ==
    \E r \in DOMAIN req :
        LET rq == req[r] IN
        /\ ZeroHits(rq) /\ rq.pc = "done"
        /\ rq.op = "get_target_users" /\ rq.id = "a"
        /\ rq.base_vector = <<1000, 0>>
        /\ store.user_vector = {}
        /\ rq.response =
              [status |-> 200, body |-> [pid |-> "a", target_users |-> <<>>]]

(***************************************************************************)
(* C20: within one blend call, the embeddings of all referenced ids of the *)
(* recent events are fetched with exactly one vector-store query, whatever *)
(* the number of events (1 to the cache window of 10); the number of store *)
(* queries issued by blend never grows with the number of events.          *)
(***************************************************************************)
\* blend was called for request rq and got as far as the embeddings
BlendFetched(rq) == rq.steps.branch \in {"query", "unresolved", "blended"}

\* the store queries of request rq other than those of the stages around
\* blend: the ones blend issued
BlendQueries(rq) ==
    {i \in 1..Len(rq.calls) :
        /\ rq.calls[i].svc = "vespa"
        /\ rq.calls[i].query.kind \notin {"vector", "metadata", "segment", "nn"}}

C20_OneBatchQueryPerBlend ==
    \A r \in DOMAIN req :
        LET rq == req[r]
            events == rq.recent_interactions
        IN  /\ Cardinality(BlendQueries(rq)) <= 1
            /\ (IsProducts(rq) /\ BlendFetched(rq))
               => /\ Len(events) \in 1..CacheWindow
                  /\ Cardinality(BlendQueries(rq)) = 1
                  /\ \A i \in BlendQueries(rq) :
                        /\ rq.calls[i].query.kind = "batch"
                        /\ rq.calls[i].query.ids =
                              [k \in 1..Len(events) |-> EventId(events[k])]
                        /\ rq.calls[i].query.hits = Len(events)

C20_Witness ==
    \E r \in DOMAIN req :
        LET rq == req[r] IN
        /\ IsProducts(rq) /\ rq.steps.branch = "blended" /\ rq.pc = "search"
        /\ Len(CachedEvents("user", rq.id)) > CacheWindow
        /\ Len(rq.recent_interactions) = CacheWindow
        /\ Len(rq.steps.weighted_vectors) = CacheWindow
        /\ Cardinality(BlendQueries(rq)) = 1
        /\ Len(rq.calls) = 3

(***************************************************************************)
(* C21: stage ordering in recommend_products_for.  The session cache is    *)
(* read for recent events only after a base vector has been found          *)
(* (individual embedding found, or segment embedding found); on the path   *)
(* where the base embedding is absent and metadata is missing, the request *)
(* performs no cache read, so its outcome (NotFound) does not depend on    *)
(* the session cache's state or availability.                              *)
(***************************************************************************)
\* every vector-store query of request rq was answered
StoreCallsOk(rq) ==
    \A i \in 1..Len(rq.calls) : rq.calls[i].svc = "vespa" => rq.calls[i].ok

CacheReads(rq) == CallsOfKind(rq, "lrange")

C21_CacheReadOnlyAfterBaseVector ==
    \A r \in DOMAIN req :
        LET rq == req[r] IN
        IsProducts(rq)
        => /\ CacheReads(rq) # {} => Truthy(rq.base_vector)
           /\ (/\ Ended(rq) /\ StoreCallsOk(rq)
               /\ ~HasEmbedding("user", rq.id) /\ ~HasMetadata(rq.id))
              => (CacheReads(rq) = {} /\ IsNotFound(rq.outcome))

(***************************************************************************)
(* C22: when the session-cache read raises any failure,                    *)
(* recommend_products_for fails with an upstream error (HTTP 500) after    *)
(* one attempt, runs no later stage and returns no list; when the cache    *)
(* has no entry for the key it yields an empty event sequence (not an      *)
(* error); the read requests at most the 10 most recent entries of the key *)
(* "user:session:recent_interactions:<uid>".                               *)
(***************************************************************************)
\* events is the head of the cached list, at most a window long
IsWindowOf(events, cached) ==
    /\ Len(events) <= CacheWindow /\ Len(events) <= Len(cached)
    /\ Len(events) = CacheWindow \/ Len(events) = Len(cached)
    /\ \A k \in 1..Len(events) : events[k] = cached[k]

C22_CacheReadFailsOnceOrYieldsWindow ==
    \A r \in DOMAIN req :
        LET rq == req[r] IN
        /\ Cardinality(CacheReads(rq)) <= 1
        /\ \A i \in CacheReads(rq) :
              /\ IsProducts(rq)
              /\ rq.calls[i].query.schema =
                    "user:session:recent_interactions:" \o rq.id
              /\ rq.calls[i].query.hits = CacheWindow
              /\ ~rq.calls[i].ok
                    => /\ i = Len(rq.calls) /\ Ended(rq)
                       /\ rq.outcome.kind = "raise"
                       /\ rq.outcome.exc.kind = "HTTPException"
                       /\ rq.outcome.exc.status = 500
                       /\ rq.pc = "done" => rq.response.status = 500
              /\ rq.calls[i].ok
                    => /\ IsWindowOf(rq.recent_interactions,
                                     CachedEvents("user", rq.id))
                       /\ (CachedEvents("user", rq.id) = <<>> /\ Ended(rq))
                             => i < Len(rq.calls)

C22_Witness ==
    \E r \in DOMAIN req :
        LET rq == req[r] IN
        /\ IsProducts(rq) /\ rq.pc = "done"
        /\ Len(rq.calls) = 2 /\ CacheReads(rq) = {2}
        /\ ~rq.calls[2].ok
        /\ CachedEvents("user", rq.id) # <<>>
        /\ rq.recent_interactions = <<>>
        /\ rq.response.status = 500

(***************************************************************************)
(* C23: resolve (_fetch_vector) distinguishes three outcomes: a matching   *)
(* document yields its embedding, no matching document yields 'absent'     *)
(* (not an error), and a store response that is malformed (a hit lacking   *)
(* the fields/embedding/values structure) yields UpstreamQueryError; a     *)
(* malformed response never escapes as any other kind of failure.          *)
(***************************************************************************)
\* the calls of _fetch_vector logged so far
ResolveLog(rq) ==
    IF "log" \in DOMAIN rq /\ rq.fn = "_fetch_vector" THEN Range(rq.log)
    ELSE {}

IsUpstreamQueryError(exc) == exc.kind = "HTTPException" /\ exc.status = 500

\* the answer was received and its first hit lacks part of the structure
MalformedAnswer(e) ==
    e.ok /\ e.raw # <<>> /\ ~HasEmbeddingValues(e.raw[1])

\* the two outcomes of a well-formed answer, and a failed call
ResolveFoundOrAbsent(e) ==
    /\ (e.ok /\ e.raw = <<>>) => (e.exc = NoExc /\ e.value = NoVector)
    /\ (e.ok /\ e.raw # <<>> /\ HasEmbeddingValues(e.raw[1]))
          => (e.exc = NoExc /\ e.value = e.raw[1].fields.embedding.values)
    /\ ~e.ok => IsUpstreamQueryError(e.exc)

C23_ResolveHasThreeOutcomes ==
    \A r \in DOMAIN req : \A e \in ResolveLog(req[r]) :
        /\ ResolveFoundOrAbsent(e)
        /\ MalformedAnswer(e) => IsUpstreamQueryError(e.exc)

(***************************************************************************)
(* C24: error closure.  Every failing outcome of either public operation   *)
(* is either NotFound (404) or UpstreamQueryError (500); no other failure  *)
(* kind surfaces to the caller, in particular not when a cached            *)
(* interaction entry is malformed (no ':' separator, a non-numeric         *)
(* timestamp, or an id that itself contains ':').                          *)
(***************************************************************************)
C24_FailuresAreNotFoundOrUpstream ==
    \A r \in DOMAIN req :
        req[r].outcome.kind = "raise"
        => (IsNotFound(req[r].outcome)
            \/ IsUpstreamQueryError(req[r].outcome.exc))

(***************************************************************************)
(* C25: idempotence of resolution.  Calling resolve (_fetch_vector), the   *)
(* segment lookup or the metadata lookup twice with identical arguments    *)
(* against an unchanged store yields identical results, and the first call *)
(* changes no state of the service, the store or the cache that the second *)
(* call could observe.                                                     *)
(***************************************************************************)
\* the request has made both of its calls
CalledTwice(rq) == "log" \in DOMAIN rq /\ Len(rq.log) = 2

\* the store gave both calls the same answer
SameAnswer(rq) ==
    rq.log[1].ok = rq.log[2].ok /\ rq.log[1].raw = rq.log[2].raw

OkAt(rq, i) == IF i <= Len(rq.calls) THEN rq.calls[i].ok ELSE TRUE

\* get_product_recommendations(uid) run from beginning to end on its own,
\* its external calls answered as those of request rq were
ProductsAlone(rq) ==
    LET v == FetchVector("user", rq.id, store, settings, OkAt(rq, 1))
        e == GetRecentInteractions("user", rq.id, cache, OkAt(rq, 2))
        m == FetchMetadata("user", rq.id, store, OkAt(rq, 3))
        segment_id == Get(m.value, "segment_id", None)
        s == FetchSegmentVector("user", segment_id, store, OkAt(rq, 4))
        base_vector == IF Truthy(v.value) THEN v.value ELSE s.value
        k == IF Truthy(v.value) THEN 3 ELSE 5
        b == ComputeRealtimeVector(base_vector, "product", e.value, store,
                                   settings, OkAt(rq, k))
        n == SearchNearest("product", b.value, NoneInt, NoneInt, settings,
                           OkAt(rq, k + Len(b.queries)), rq.raw_hits)
        rest == IF b.exc # NoExc THEN Raised(b.exc)
                ELSE IF n.exc # NoExc THEN Raised(n.exc)
                ELSE Returned(ProjectAll(n.value, "product"))
    IN  IF v.exc # NoExc THEN Raised(v.exc)
        ELSE IF e.exc # NoExc THEN Raised(e.exc)
        ELSE IF Truthy(v.value) THEN rest
        ELSE IF m.exc # NoExc THEN Raised(m.exc)
        ELSE IF ~TruthyStr(segment_id) THEN Returned(<<>>)
        ELSE IF s.exc # NoExc THEN Raised(s.exc)
        ELSE IF ~Truthy(s.value)
        THEN Raised(HTTPException(404,
                 <<"Segment Document '", segment_id,
                   "' not found in user_segment schema.">>))
        ELSE rest

\* get_target_users(pid) run on its own in the same way
UsersAlone(rq) ==
    LET v == FetchVector("product", rq.id, store, settings, OkAt(rq, 1))
        n == SearchNearest("user", v.value, NoneInt, NoneInt, settings,
                           OkAt(rq, 2), rq.raw_hits)
    IN  IF v.exc # NoExc THEN Raised(v.exc)
        ELSE IF n.exc # NoExc THEN Raised(n.exc)
        ELSE Returned(ProjectAll(n.value, "user"))

OutcomeAlone(rq) == IF IsProducts(rq) THEN ProductsAlone(rq) ELSE UsersAlone(rq)

\* a step changes the state of one request only
OneRequestSteps ==
    \E r \in DOMAIN req : \A q \in DOMAIN req \ {r} : req'[q] = req[q]

C27_ExternalContentsUnchanged == [][store' = store /\ cache' = cache]_vars

\* one request has succeeded and another has failed, both having read the
\* store and the cache, which hold documents and events
C27_Witness ==
    \E r, q \in DOMAIN req :
        /\ req[r].pc = "done" /\ req[q].pc = "done"
        /\ IsProducts(req[r]) /\ req[r].response.status = 200
        /\ CacheReads(req[r]) # {} /\ CallsOfKind(req[r], "segment") # {}
        /\ req[r].recent_interactions # <<>>
        /\ req[q].response.status = 500
        /\ store.product_vector # {} /\ store.user # {}
        /\ store.user_segment # {} /\ store.product_cold_start # {}
        /\ CachedEvents("user", "u1") = req[r].recent_interactions


(***************************************************************************)
(* C28: every configuration option read on the request path is a           *)
(* recognized setting that has a default (result count, candidate pool     *)
(* size, decay half-life, blend weights alpha and beta, the model version  *)
(* selector, the cold-start strategy id, the cache host and port), so a    *)
(* request in a deployment that overrides nothing never fails because an   *)
(* option is undefined.                                                    *)
(***************************************************************************)

\* the fields class Settings declares, each with a default
DeclaredSettings ==
    { "vespa_host", "vespa_port", "api_title", "api_version",
      "api_description", "recommend_hits", "recommend_target_hits" }

\* the attributes of the settings object a request has read so far: the
\* two clients are built from it when the service is constructed for the
\* request, the model version is read by the first lookup, the blend
\* weights by the blend that reaches step 5, the two counts by the search
SettingsRead(rq) ==
    (IF rq.pc # "idle"
     THEN {"vespa_host", "vespa_port", "redis_host", "redis_port"} ELSE {})
    \cup (IF CallsOfKind(rq, "vector") \cup CallsOfKind(rq, "batch") # {}
          THEN {"latest_model_version"} ELSE {})
    \cup (IF rq.steps.branch = "blended"
          THEN {"recommend_alpha", "recommend_beta"} ELSE {})
    \cup (IF CallsOfKind(rq, "nn") # {}
          THEN {"recommend_hits", "recommend_target_hits"} ELSE {})

\* C28: a request reads only settings that class Settings declares
C28_OnlyDeclaredSettingsRead ==
    \A r \in DOMAIN req : SettingsRead(req[r]) \subseteq DeclaredSettings


(***************************************************************************)
(* C29: every request terminates, given that each external call returns or *)
(* fails: a products request ends in a result or an error after at most    *)
(* one session-cache read and at most five vector-store queries (base      *)
(* vector, metadata, segment vector, embedding batch fetch, ANN search),   *)
(* each issued at most once and in that order; a target-users request ends *)
(* after at most two store queries; no stage is ever re-entered.           *)
(***************************************************************************)

\* the steps of a pipeline that wait on one call, or on none
CallSteps ==
    \/ FetchVectorStep
    \/ RecentStep
    \/ MetadataStep
    \/ SegmentStep
    \/ SearchStep
    \/ RouteStep

\* some request is at _compute_realtime_vector, which it can always take:
\* BlendStage has no guard but the position
BlendPending == \E r \in DOMAIN req : req[r].pc = "blend"

\* each request is served by a worker that runs its pipeline to the end, and
\* each external call returns or fails: a pipeline step that can be taken is
\* taken (weak fairness of the steps, that of the blend written out with
\* BlendPending as its enabling condition); clients need not send requests
FairSpec ==
    /\ ConcurrentInit
    /\ [][Next]_vars
    /\ WF_vars(CallSteps)
    /\ (<>[]BlendPending => []<><<BlendStep>>_vars)

\* the store queries of a request, in the order they were issued
StoreQueriesOf(rq) ==
    SelectSeq(CallKinds(rq), LAMBDA k : k \in StoreQueryKinds)

\* the place of a store query in the pipeline
QueryRank(kind) ==
    CASE kind = "vector" -> 1 [] kind = "metadata" -> 2
      [] kind = "segment" -> 3 [] kind = "batch" -> 4 [] kind = "nn" -> 5
      [] OTHER -> 0

\* the place of a stage in the pipeline
StageRank(pc) ==
    CASE pc = "idle" -> 0 [] pc = "fetch_vector" -> 1 [] pc = "recent" -> 2
      [] pc = "metadata" -> 3 [] pc = "segment" -> 4 [] pc = "blend" -> 5
      [] pc = "search" -> 6 [] pc = "finished" -> 7 [] pc = "done" -> 8
      [] OTHER -> 0

\* each store query at most once and in pipeline order
InPipelineOrder(kinds) ==
    \A i, j \in 1..Len(kinds) :
        i < j => QueryRank(kinds[i]) < QueryRank(kinds[j])

CallBounds(rq) ==
    /\ Cardinality(CacheReads(rq)) <= 1
    /\ Len(StoreQueriesOf(rq)) + Cardinality(CacheReads(rq)) = Len(rq.calls)
    /\ InPipelineOrder(StoreQueriesOf(rq))
    /\ IsProducts(rq) => Len(StoreQueriesOf(rq)) <= 5
    /\ rq.op = "get_target_users" => Len(StoreQueriesOf(rq)) <= 2
    /\ Ended(rq) => rq.outcome.kind \in {"return", "raise"}

\* a step of a request takes it to a later stage
StagesAdvance ==
    \A r \in DOMAIN req :
        req'[r] # req[r] => StageRank(req'[r].pc) > StageRank(req[r].pc)

\* C29: an accepted request reaches its response, within the call bounds and
\* without going back to a stage
C29_RequestsTerminateWithinBounds ==
    /\ [](\A r \in DOMAIN req : CallBounds(req[r]))
    /\ [][StagesAdvance]_vars
    /\ \A r \in ConcurrentSlots :
          (r \in DOMAIN req /\ req[r].pc # "idle")
              ~> (r \in DOMAIN req /\ req[r].pc = "done")

\* a products request has ended after one cache read and all five store
\* queries, beside a target-users request that ended after two
C29_Witness ==
    \E r, q \in DOMAIN req :
        /\ req[r].pc = "done" /\ IsProducts(req[r])
        /\ Cardinality(CacheReads(req[r])) = 1
        /\ StoreQueriesOf(req[r])
              = <<"vector", "metadata", "segment", "batch", "nn">>
        /\ req[q].pc = "done" /\ req[q].op = "get_target_users"
        /\ Len(StoreQueriesOf(req[q])) = 2


(***************************************************************************)
(* C30: whenever blend reaches the weighted-mean step (the batch fetch     *)
(* returned at least one embedding), at least one recent event's id is     *)
(* among the resolved ids and the sum of decay weights used as the divisor *)
(* is strictly positive, for every event timestamp however old; the        *)
(* weighted mean is therefore always defined.                              *)
(***************************************************************************)
WeightedMeanReached(rq) == rq.steps.branch = "blended"

C30_DivisorStrictlyPositive ==
    \A r \in DOMAIN req :
        WeightedMeanReached(req[r])
            => /\ req[r].steps.weights # <<>>
               /\ Len(req[r].steps.weighted_vectors) = Len(req[r].steps.weights)
               /\ req[r].steps.total_weight > 0
               /\ \A i \in 1..Len(req[r].query_vector) :
                     req[r].query_vector[i] # NaN

====
